---- MODULE Spec2Model ----
(***************************************************************************)
(* A model of session.Session (src/session/session.go): the asynchronous   *)
(* startup activity of NewSession, Transfer, Server, Disconnect and Close, *)
(* run by concurrent goroutines over one session.                          *)
(*                                                                         *)
(* Every goroutine is a process with a program counter; one action is one  *)
(* step of one goroutine between two accesses to shared state.  Operations *)
(* that touch only the caller's own view of the client (packet writes,     *)
(* tracker and animation hooks) are recorded, in program order, in the     *)
(* caller's trace.                                                         *)
(***************************************************************************)
EXTENDS Integers, Sequences, FiniteSets

(* ------------------------------ bounds -------------------------------- *)

\* number of goroutines that use the session besides the startup goroutine;
\* each calls one method once: Transfer, Close, Disconnect or Server
MaxCallers == 2
\* number of packets a backend buffers during its handshake (ReadDeferred)
MaxDeferred == 2

(* ------------------------- program constants -------------------------- *)

\* packet.DimensionNether, the tag of every synthetic chunk
DimensionNether == 1
\* the chunk flood covers chunkX-4..chunkX+4 and chunkZ-4..chunkZ+4
ChunkRadius == 4

(* ----------------------------- processes ------------------------------ *)

\* the goroutine NewSession spawns
Startup == 0
Callers == 1..MaxCallers
\* the method a caller runs is settled by its first step
Transfers == Callers
Closers == Callers
Readers == Callers
Procs == {Startup} \cup Callers

\* the goroutines that can run Close
CloseUsers == {Startup} \cup Closers

\* a backend connection is named after the goroutine that dialed it
ConnIds == {Startup} \cup Transfers
Nil == -1
NoAddr == ""

\* the address NewSession is given, and the address each caller transfers to
InitAddr == "A"
AddrOf(t) == IF t = 1 THEN "B" ELSE IF t = 2 THEN "C" ELSE IF t = 3 THEN "D" ELSE "E"
ConnAddr(c) == IF c = Startup THEN InitAddr ELSE AddrOf(c)

\* the dimensions a backend can report in its game data
Dimensions == {0, 1, 2}
\* the player position (x, z) a backend reports, as whole blocks
PlayerPosition(c) == <<16 * c + 7, -((16 * c) + 9)>>

VARIABLES
    pc,            \* pc[p]: the statement goroutine p executes next
    serverAddr,    \* Session.serverAddr
    serverConn,    \* Session.serverConn (Nil or a connection)
    writer,        \* serverMu: the goroutine holding or awaiting the write lock
    readers,       \* serverMu: the goroutines holding the read lock
    transferring,  \* Session.transferring
    once,          \* Session.once: "fresh", "running" or "done"
    clientClosed,  \* number of clientConn.Close() calls
    connClosed,    \* connClosed[c]: number of Close() calls on connection c
    registered,    \* whether the registry holds an entry for the session
    addCalls,      \* number of registry.AddSession calls
    removeCalls,   \* number of registry.RemoveSession calls
    pumpsStarted,  \* whether handleIncoming/handleOutgoing/handleLatency run
    pending,       \* the startup goroutine's stores not yet visible to others
    conn,          \* conn[p]: p's local connection variable (Nil or a connection)
    err,           \* err[p]: p's local error variable
    gameData,      \* gameData[t]: serverGameData of Transfer call t
    trace,         \* trace[p]: what p did to the client and collaborators
    result,        \* result[p]: what p's call returned
    lastOk,        \* address of the most recent Transfer that returned nil
    crashed        \* an unrecovered panic has ended the program

vars == <<pc, serverAddr, serverConn, writer, readers, transferring, once,
          clientClosed, connClosed, registered, addCalls, removeCalls,
          pumpsStarted, pending, conn, err, gameData, trace, result, lastOk,
          crashed>>

sessionVars == <<serverAddr, serverConn>>
lockVars == <<writer, readers, transferring>>
closeVars == <<once, clientClosed, connClosed>>
registryVars == <<registered, addCalls, removeCalls, pumpsStarted>>
localVars == <<conn, err, gameData>>

NoGameData == [Dimension |-> Nil, PlayerPosition |-> <<0, 0>>]

Init ==
    /\ pc = [p \in Procs |-> IF p = Startup THEN "dial" ELSE "idle"]
    /\ serverAddr = NoAddr
    /\ serverConn = Nil
    /\ writer = Nil
    /\ readers = {}
    /\ transferring = FALSE
    /\ once = "fresh"
    /\ clientClosed = 0
    /\ connClosed = [c \in ConnIds |-> 0]
    /\ registered = FALSE
    /\ addCalls = 0
    /\ removeCalls = 0
    /\ pumpsStarted = FALSE
    /\ pending = {}
    /\ conn = [p \in Procs |-> Nil]
    /\ err = [p \in Procs |-> FALSE]
    /\ gameData = [t \in Transfers |-> NoGameData]
    /\ trace = [p \in Procs |-> <<>>]
    /\ result = [p \in Procs |-> "none"]
    /\ lastOk = NoAddr
    /\ crashed = FALSE

(* ------------------------------ helpers ------------------------------- *)

Goto(p, l) == pc' = [pc EXCEPT ![p] = l]
Do(p, evs) == trace' = [trace EXCEPT ![p] = trace[p] \o evs]

\* sendMetadata: one SetActorData packet; NoAI only when asked, Breathing and
\* HasGravity always
sendMetadata(noAI) ==
    [ev |-> "SetActorData", NoAI |-> noAI, Breathing |-> TRUE, HasGravity |-> TRUE]

\* the packets ReadDeferred returns for connection c, in arrival order
ReadDeferred(c) == [i \in 1..MaxDeferred |-> [ev |-> "Deferred", conn |-> c, seq |-> i]]

\* int32(v) >> 4: arithmetic shift, rounding toward minus infinity
ChunkCoord(v) == v \div 16

\* the nested loop of lines 110-123: x outer, z inner, one LevelChunk per
\* position, carrying emptyChunk(Dimension) and tagged DimensionNether
ChunkFlood(gd) ==
    LET w == 2 * ChunkRadius + 1
        chunkX == ChunkCoord(gd.PlayerPosition[1])
        chunkZ == ChunkCoord(gd.PlayerPosition[2])
    IN  [i \in 1..(w * w) |->
            [ev |-> "LevelChunk",
             Dimension |-> DimensionNether,
             Position |-> <<chunkX - ChunkRadius + ((i - 1) \div w),
                            chunkZ - ChunkRadius + ((i - 1) % w)>>,
             SubChunkCount |-> 1,
             RawPayload |-> gd.Dimension]]

(* ------------------- NewSession: the startup goroutine ---------------- *)

\* line 48: serverConn, err := s.Dial(addr); the dial succeeds or fails
StartupDial ==
    /\ ~crashed
    /\ pc[Startup] = "dial"
    /\ \E ok \in BOOLEAN :
        /\ conn' = [conn EXCEPT ![Startup] = IF ok THEN Startup ELSE Nil]
        /\ err' = [err EXCEPT ![Startup] = ~ok]
    /\ pending' = {"serverAddr", "serverConn"}
    /\ Goto(Startup, "store")
    /\ UNCHANGED <<sessionVars, lockVars, closeVars, registryVars, gameData,
                   trace, result, lastOk, crashed>>

\* lines 49-50: s.serverAddr = addr; s.serverConn = serverConn.  Both are plain
\* stores made without serverMu, so they race with Transfer and Close, and
\* nothing orders their becoming visible to another goroutine: each of the two
\* pending stores may land first.
StartupStore(f) ==
    /\ ~crashed
    /\ pc[Startup] = "store"
    /\ f \in pending
    /\ pending' = pending \ {f}
    /\ serverAddr' = IF f = "serverAddr" THEN InitAddr ELSE serverAddr
    /\ serverConn' = IF f = "serverConn" THEN conn[Startup] ELSE serverConn
    /\ Goto(Startup, IF pending' = {} THEN "stored" ELSE "store")
    /\ UNCHANGED <<lockVars, closeVars, registryVars, localVars, trace, result,
                   lastOk, crashed>>

\* a startup that logs the dial error and goes on as if the dial had succeeded
StartupDialFailed_GoesOn ==
    /\ ~crashed
    /\ pc[Startup] = "stored"
    /\ err[Startup]
    /\ result' = [result EXCEPT ![Startup] = "startup dial failed"]
    /\ Goto(Startup, "spawn")
    /\ UNCHANGED <<sessionVars, lockVars, closeVars, registryVars, pending,
                   localVars, trace, lastOk, crashed>>

\* lines 51-55: the dial failed: s.Close(), log, return
StartupDialFailed ==
    /\ ~crashed
    /\ pc[Startup] = "stored"
    /\ err[Startup]
    /\ result' = [result EXCEPT ![Startup] = "startup dial failed"]
    /\ Goto(Startup, "once")
    /\ UNCHANGED <<sessionVars, lockVars, closeVars, registryVars, pending,
                   localVars, trace, lastOk, crashed>>

\* a startup that closes the session on a StartGame error but does not return
StartupStartGameFailed_NoReturn ==
    /\ ~crashed
    /\ pc[Startup] = "stored"
    /\ ~err[Startup]
    /\ result' = [result EXCEPT ![Startup] = "start game failed"]
    /\ Goto(Startup, "add")
    /\ UNCHANGED <<sessionVars, lockVars, closeVars, registryVars, pending,
                   localVars, trace, lastOk, crashed>>

\* lines 57-61: clientConn.StartGame(serverConn.GameData()) returns an error:
\* s.Close(), log, return
StartupStartGameFailed ==
    /\ ~crashed
    /\ pc[Startup] = "stored"
    /\ ~err[Startup]
    /\ result' = [result EXCEPT ![Startup] = "start game failed"]
    /\ Goto(Startup, "once")
    /\ UNCHANGED <<sessionVars, lockVars, closeVars, registryVars, pending,
                   localVars, trace, lastOk, crashed>>

\* lines 57, 63-66: StartGame succeeds, which it cannot on a client connection
\* that has been closed; s.sendMetadata(true); every deferred packet of the
\* backend, in order
StartupRelay ==
    /\ ~crashed
    /\ pc[Startup] = "stored"
    /\ ~err[Startup]
    /\ clientClosed = 0
    /\ Do(Startup, <<[ev |-> "StartGame", conn |-> conn[Startup]],
                     sendMetadata(TRUE)>> \o ReadDeferred(conn[Startup]))
    /\ Goto(Startup, "spawn")
    /\ UNCHANGED <<sessionVars, lockVars, closeVars, registryVars, pending,
                   localVars, result, lastOk, crashed>>

\* lines 68-70: go handleIncoming(s); go handleOutgoing(s); go handleLatency(..)
StartupSpawn ==
    /\ ~crashed
    /\ pc[Startup] = "spawn"
    /\ pumpsStarted' = TRUE
    /\ Goto(Startup, "add")
    /\ UNCHANGED <<sessionVars, lockVars, closeVars, registered, addCalls,
                   removeCalls, pending, localVars, trace, result, lastOk,
                   crashed>>

\* lines 72-73: s.registry.AddSession(xuid, s), log
StartupAdd ==
    /\ ~crashed
    /\ pc[Startup] = "add"
    /\ registered' = TRUE
    /\ addCalls' = addCalls + 1
    /\ result' = [result EXCEPT ![Startup] = "started"]
    /\ Goto(Startup, "done")
    /\ UNCHANGED <<sessionVars, lockVars, closeVars, removeCalls, pumpsStarted,
                   pending, localVars, trace, lastOk, crashed>>

(* -------------------------------- Close ------------------------------- *)

\* a Close without the once guard: every caller runs the body
CloseEnter_NoOnce(p) ==
    /\ ~crashed
    /\ pc[p] = "once"
    /\ once' = "running"
    /\ clientClosed' = clientClosed + 1
    /\ Do(p, <<[ev |-> "ClientClose"]>>)
    /\ Goto(p, "closeServer")
    /\ UNCHANGED <<sessionVars, lockVars, connClosed, registryVars, pending,
                   localVars, result, lastOk, crashed>>

\* lines 197-198: s.once.Do(f), first caller: f runs, and begins with
\* _ = s.clientConn.Close()
CloseEnter(p) ==
    /\ ~crashed
    /\ pc[p] = "once"
    /\ once = "fresh"
    /\ once' = "running"
    /\ clientClosed' = clientClosed + 1
    /\ Do(p, <<[ev |-> "ClientClose"]>>)
    /\ Goto(p, "closeServer")
    /\ UNCHANGED <<sessionVars, lockVars, connClosed, registryVars, pending,
                   localVars, result, lastOk, crashed>>

\* line 197: s.once.Do(f), a later caller: waits until f has returned, then
\* returns without running it
CloseSkip(p) ==
    /\ ~crashed
    /\ pc[p] = "once"
    /\ once = "done"
    /\ Goto(p, "done")
    /\ UNCHANGED <<sessionVars, lockVars, closeVars, registryVars, pending,
                   localVars, trace, result, lastOk, crashed>>

\* lines 200-202: if s.serverConn != nil { s.serverConn.Close() }; the field
\* is read without serverMu
CloseServer(p) ==
    /\ ~crashed
    /\ pc[p] = "closeServer"
    /\ IF serverConn # Nil
       THEN /\ connClosed' = [connClosed EXCEPT ![serverConn] = @ + 1]
            /\ Do(p, <<[ev |-> "ServerClose", conn |-> serverConn, line |-> 201]>>)
       ELSE UNCHANGED <<connClosed, trace>>
    /\ Goto(p, "remove")
    /\ UNCHANGED <<sessionVars, lockVars, once, clientClosed, registryVars,
                   pending, localVars, result, lastOk, crashed>>

\* lines 204-207: s.registry.RemoveSession(xuid), log; f returns and once.Do
\* lets the waiting callers go
CloseRemove(p) ==
    /\ ~crashed
    /\ pc[p] = "remove"
    /\ registered' = FALSE
    /\ removeCalls' = removeCalls + 1
    /\ once' = "done"
    /\ Do(p, <<[ev |-> "RemoveSession"]>>)
    /\ Goto(p, "done")
    /\ UNCHANGED <<sessionVars, lockVars, clientClosed, connClosed, addCalls,
                   pumpsStarted, pending, localVars, result, lastOk, crashed>>

\* a goroutine calls s.Close()
CloserClose(p) ==
    /\ ~crashed
    /\ pc[p] = "idle"
    /\ result' = [result EXCEPT ![p] = "Close"]
    /\ Goto(p, "once")
    /\ UNCHANGED <<sessionVars, lockVars, closeVars, registryVars, pending,
                   localVars, trace, lastOk, crashed>>

\* a Disconnect that calls Close first and writes the notice afterwards
CloserDisconnect_CloseFirst(p) ==
    /\ ~crashed
    /\ pc[p] = "idle"
    /\ result' = [result EXCEPT ![p] = "Disconnect"]
    /\ IF once = "fresh"
       THEN /\ once' = "running"
            /\ clientClosed' = clientClosed + 1
            /\ Do(p, <<[ev |-> "ClientClose"],
                       [ev |-> "Disconnect", clientClosed |-> clientClosed + 1]>>)
            /\ Goto(p, "closeServer")
       ELSE /\ Do(p, <<[ev |-> "Disconnect", clientClosed |-> clientClosed]>>)
            /\ Goto(p, "once")
            /\ UNCHANGED <<once, clientClosed>>
    /\ UNCHANGED <<sessionVars, lockVars, connClosed, registryVars, pending,
                   localVars, lastOk, crashed>>

\* lines 179-184: a goroutine calls s.Disconnect(message): the Disconnect
\* packet is written, then s.Close()
CloserDisconnect(p) ==
    /\ ~crashed
    /\ pc[p] = "idle"
    /\ result' = [result EXCEPT ![p] = "Disconnect"]
    /\ Do(p, <<[ev |-> "Disconnect", clientClosed |-> clientClosed]>>)
    /\ Goto(p, "once")
    /\ UNCHANGED <<sessionVars, lockVars, closeVars, registryVars, pending,
                   localVars, lastOk, crashed>>

(* ------------------------------ Transfer ------------------------------ *)

\* whether the session is active and quiet: the startup goroutine has
\* registered it and no Close has begun
Idle == pc[Startup] = "done" /\ result[Startup] = "started" /\ once = "fresh"

\* a Transfer that sets the flag without testing it (Store(true) for the
\* compare-and-swap)
TransferCAS_NoTest(t) ==
    /\ ~crashed
    /\ pc[t] = "idle"
    /\ Do(t, <<[ev |-> "Call", addr |-> AddrOf(t), idle |-> Idle]>>)
    /\ transferring' = TRUE
    /\ Goto(t, "lock")
    /\ UNCHANGED <<sessionVars, writer, readers, closeVars, registryVars,
                   pending, localVars, result, lastOk, crashed>>

\* a Transfer whose deferred Store(false) is registered before the flag test,
\* so that a rejected call clears the flag of the call in flight
TransferCAS_RejectClears(t) ==
    /\ ~crashed
    /\ pc[t] = "idle"
    /\ Do(t, <<[ev |-> "Call", addr |-> AddrOf(t), idle |-> Idle]>>)
    /\ IF transferring
       THEN /\ result' = [result EXCEPT ![t] = "already transferring"]
            /\ Goto(t, "done")
            /\ transferring' = FALSE
       ELSE /\ transferring' = TRUE
            /\ Goto(t, "lock")
            /\ UNCHANGED result
    /\ UNCHANGED <<sessionVars, writer, readers, closeVars, registryVars,
                   pending, localVars, lastOk, crashed>>

\* lines 88-91: a goroutine calls s.Transfer(AddrOf(t)), which the trace
\* records: if !s.transferring.CompareAndSwap(false, true) it returns the
\* "already transferring" error
TransferCAS(t) ==
    /\ ~crashed
    /\ pc[t] = "idle"
    /\ Do(t, <<[ev |-> "Call", addr |-> AddrOf(t), idle |-> Idle]>>)
    /\ IF transferring
       THEN /\ result' = [result EXCEPT ![t] = "already transferring"]
            /\ Goto(t, "done")
            /\ UNCHANGED transferring
       ELSE /\ transferring' = TRUE
            /\ Goto(t, "lock")
            /\ UNCHANGED result
    /\ UNCHANGED <<sessionVars, writer, readers, closeVars, registryVars,
                   pending, localVars, lastOk, crashed>>

\* line 93: s.serverMu.Lock(), first half: the writer announces itself, and
\* from now on RLock blocks
TransferLock(t) ==
    /\ ~crashed
    /\ pc[t] = "lock"
    /\ writer = Nil
    /\ writer' = t
    /\ Goto(t, "lockWait")
    /\ UNCHANGED <<sessionVars, readers, transferring, closeVars, registryVars,
                   pending, localVars, trace, result, lastOk, crashed>>

\* lines 93, 99: s.serverMu.Lock(), second half: the writer proceeds once the
\* read locks taken before have been released; then s.sendMetadata(true)
TransferLocked(t) ==
    /\ ~crashed
    /\ pc[t] = "lockWait"
    /\ readers = {}
    /\ Do(t, <<sendMetadata(TRUE)>>)
    /\ Goto(t, "dial")
    /\ UNCHANGED <<sessionVars, lockVars, closeVars, registryVars, pending,
                   localVars, result, lastOk, crashed>>

\* a Transfer that stores the dial's results in the session before it looks
\* at err
TransferDialFailed_Publishes(t) ==
    /\ ~crashed
    /\ pc[t] = "dial"
    /\ err' = [err EXCEPT ![t] = TRUE]
    /\ serverAddr' = AddrOf(t)
    /\ serverConn' = Nil
    /\ Do(t, <<sendMetadata(FALSE)>>)
    /\ Goto(t, "unlock")
    /\ UNCHANGED <<lockVars, closeVars, registryVars, pending, conn, gameData,
                   result, lastOk, crashed>>

\* a Transfer whose error path returns without running the deferred function
TransferDialFailed_NoDefer(t) ==
    /\ ~crashed
    /\ pc[t] = "dial"
    /\ err' = [err EXCEPT ![t] = TRUE]
    /\ Do(t, <<sendMetadata(FALSE)>>)
    /\ result' = [result EXCEPT ![t] = "dial failed"]
    /\ Goto(t, "done")
    /\ UNCHANGED <<sessionVars, lockVars, closeVars, registryVars, pending,
                   conn, gameData, lastOk, crashed>>

\* a Transfer that sends the AI-suppressing packet again where it should
\* restore the metadata
TransferDialFailed_NoRestore(t) ==
    /\ ~crashed
    /\ pc[t] = "dial"
    /\ err' = [err EXCEPT ![t] = TRUE]
    /\ Do(t, <<sendMetadata(TRUE)>>)
    /\ Goto(t, "unlock")
    /\ UNCHANGED <<sessionVars, lockVars, closeVars, registryVars, pending,
                   conn, gameData, result, lastOk, crashed>>

\* lines 100-104: conn, err := s.Dial(addr) fails: s.sendMetadata(false), log,
\* return err (the deferred function runs next)
TransferDialFailed(t) ==
    /\ ~crashed
    /\ pc[t] = "dial"
    /\ err' = [err EXCEPT ![t] = TRUE]
    /\ Do(t, <<sendMetadata(FALSE)>>)
    /\ Goto(t, "unlock")
    /\ UNCHANGED <<sessionVars, lockVars, closeVars, registryVars, pending,
                   conn, gameData, result, lastOk, crashed>>

\* a handshake that ends the animation before it plays it, and clears the
\* scoreboards twice instead of the players
HandshakeEvents_Misordered(gd) ==
    <<[ev |-> "GameData", Dimension |-> gd.Dimension], [ev |-> "Clear"],
      [ev |-> "ChunkFlood", gameData |-> gd],
      [ev |-> "clearEffects"], [ev |-> "clearEntities"], [ev |-> "clearBossBars"],
      [ev |-> "clearScoreboards"], [ev |-> "clearScoreboards"],
      [ev |-> "MovePlayer", Mode |-> "Reset", Position |-> gd.PlayerPosition],
      [ev |-> "LevelEvent", EventType |-> "StopRaining"],
      [ev |-> "LevelEvent", EventType |-> "StopThunderstorm"],
      [ev |-> "SetDifficulty"], [ev |-> "SetPlayerGameType"],
      [ev |-> "GameRulesChanged"], [ev |-> "Play"]>>

\* lines 107-158, in program order: conn.GameData(), animation.Play, the chunk
\* flood, the five tracker clears, MovePlayer, the two LevelEvents,
\* SetDifficulty, SetPlayerGameType, GameRulesChanged, animation.Clear
HandshakeEvents(gd) ==
    <<[ev |-> "GameData", Dimension |-> gd.Dimension], [ev |-> "Play"],
      [ev |-> "ChunkFlood", gameData |-> gd],
      [ev |-> "clearEffects"], [ev |-> "clearEntities"], [ev |-> "clearBossBars"],
      [ev |-> "clearPlayers"], [ev |-> "clearScoreboards"],
      [ev |-> "MovePlayer", Mode |-> "Reset", Position |-> gd.PlayerPosition],
      [ev |-> "LevelEvent", EventType |-> "StopRaining"],
      [ev |-> "LevelEvent", EventType |-> "StopThunderstorm"],
      [ev |-> "SetDifficulty"], [ev |-> "SetPlayerGameType"],
      [ev |-> "GameRulesChanged"], [ev |-> "Clear"]>>

\* lines 100, 107-158: the dial succeeds; the new backend reports its game
\* data, and the client is taken through the handshake
TransferDialed(t) ==
    /\ ~crashed
    /\ pc[t] = "dial"
    /\ conn' = [conn EXCEPT ![t] = t]
    /\ \E d \in Dimensions :
        LET gd == [Dimension |-> d, PlayerPosition |-> PlayerPosition(t)]
        IN  /\ gameData' = [gameData EXCEPT ![t] = gd]
            /\ Do(t, HandshakeEvents(gd))
    /\ Goto(t, "closeOld")
    /\ UNCHANGED <<sessionVars, lockVars, closeVars, registryVars, pending,
                   err, result, lastOk, crashed>>

\* a Transfer that does not close the previous connection
TransferCloseOld_Leaks(t) ==
    /\ ~crashed
    /\ pc[t] = "closeOld"
    /\ Goto(t, "publishAddr")
    /\ UNCHANGED <<sessionVars, lockVars, closeVars, registryVars, pending,
                   localVars, trace, result, lastOk, crashed>>

\* line 159: s.serverConn.Close().  On a nil serverConn the call panics: the
\* deferred function unlocks serverMu and clears the flag, and the panic,
\* which nothing recovers, ends the program.
TransferCloseOld(t) ==
    /\ ~crashed
    /\ pc[t] = "closeOld"
    /\ IF serverConn = Nil
       THEN /\ writer' = Nil
            /\ transferring' = FALSE
            /\ crashed' = TRUE
            /\ result' = [result EXCEPT ![t] = "panic"]
            /\ Goto(t, "done")
            /\ UNCHANGED <<connClosed, trace>>
       ELSE /\ connClosed' = [connClosed EXCEPT ![serverConn] = @ + 1]
            /\ Do(t, <<[ev |-> "ServerClose", conn |-> serverConn, line |-> 159]>>)
            /\ Goto(t, "publishAddr")
            /\ UNCHANGED <<writer, transferring, crashed, result>>
    /\ UNCHANGED <<sessionVars, readers, once, clientClosed, registryVars,
                   pending, localVars, lastOk>>

\* line 161: s.serverAddr = addr
TransferPublishAddr(t) ==
    /\ ~crashed
    /\ pc[t] = "publishAddr"
    /\ serverAddr' = AddrOf(t)
    /\ Goto(t, "publishConn")
    /\ UNCHANGED <<serverConn, lockVars, closeVars, registryVars, pending,
                   localVars, trace, result, lastOk, crashed>>

\* a Transfer that flushes the new backend's deferred packets before it
\* publishes the connection
TransferPublishConn_FlushFirst(t) ==
    /\ ~crashed
    /\ pc[t] = "publishConn"
    /\ serverConn' = conn[t]
    /\ Do(t, ReadDeferred(conn[t])
             \o <<[ev |-> "Publish", addr |-> AddrOf(t), conn |-> conn[t]]>>)
    /\ Goto(t, "unlock")
    /\ UNCHANGED <<serverAddr, lockVars, closeVars, registryVars, pending,
                   localVars, result, lastOk, crashed>>

\* lines 162-167: s.serverConn = conn; every deferred packet of the new
\* connection, in order; log
TransferPublishConn(t) ==
    /\ ~crashed
    /\ pc[t] = "publishConn"
    /\ serverConn' = conn[t]
    /\ Do(t, <<[ev |-> "Publish", addr |-> AddrOf(t), conn |-> conn[t]]>>
             \o ReadDeferred(conn[t]))
    /\ Goto(t, "unlock")
    /\ UNCHANGED <<serverAddr, lockVars, closeVars, registryVars, pending,
                   localVars, result, lastOk, crashed>>

\* line 95, deferred: s.serverMu.Unlock()
TransferUnlock(t) ==
    /\ ~crashed
    /\ pc[t] = "unlock"
    /\ writer' = Nil
    /\ Goto(t, "clearFlag")
    /\ UNCHANGED <<sessionVars, readers, transferring, closeVars, registryVars,
                   pending, localVars, trace, result, lastOk, crashed>>

\* line 96, deferred: s.transferring.Store(false); then Transfer returns err
\* (line 104) or nil (line 168)
TransferReturn(t) ==
    /\ ~crashed
    /\ pc[t] = "clearFlag"
    /\ transferring' = FALSE
    /\ result' = [result EXCEPT ![t] = IF err[t] THEN "dial failed" ELSE "ok"]
    /\ lastOk' = IF err[t] THEN lastOk ELSE AddrOf(t)
    /\ Goto(t, "done")
    /\ UNCHANGED <<sessionVars, writer, readers, closeVars, registryVars,
                   pending, localVars, trace, crashed>>

(* ------------------------------- Server ------------------------------- *)

\* line 186: a goroutine calls s.Server()
ServerCall(r) ==
    /\ ~crashed
    /\ pc[r] = "idle"
    /\ result' = [result EXCEPT ![r] = "Server"]
    /\ Goto(r, "rlock")
    /\ UNCHANGED <<sessionVars, lockVars, closeVars, registryVars, pending,
                   localVars, trace, lastOk, crashed>>

\* a Server that reads the field without taking the read lock
ServerRLock_NoLock(r) ==
    /\ ~crashed
    /\ pc[r] = "rlock"
    /\ readers' = readers \cup {r}
    /\ conn' = [conn EXCEPT ![r] = serverConn]
    /\ Goto(r, "runlock")
    /\ UNCHANGED <<sessionVars, writer, transferring, closeVars, registryVars,
                   pending, err, gameData, trace, result, lastOk, crashed>>

\* lines 187, 189: s.serverMu.RLock(), which blocks while a writer holds or
\* awaits the lock; the operand of return, s.serverConn, is evaluated
ServerRLock(r) ==
    /\ ~crashed
    /\ pc[r] = "rlock"
    /\ writer = Nil
    /\ readers' = readers \cup {r}
    /\ conn' = [conn EXCEPT ![r] = serverConn]
    /\ Goto(r, "runlock")
    /\ UNCHANGED <<sessionVars, writer, transferring, closeVars, registryVars,
                   pending, err, gameData, trace, result, lastOk, crashed>>

\* line 188, deferred: s.serverMu.RUnlock(); then Server returns
ServerRUnlock(r) ==
    /\ ~crashed
    /\ pc[r] = "runlock"
    /\ readers' = readers \ {r}
    /\ result' = [result EXCEPT ![r] = "returned"]
    /\ Goto(r, "done")
    /\ UNCHANGED <<sessionVars, writer, transferring, closeVars, registryVars,
                   pending, localVars, trace, lastOk, crashed>>

(* --------------------------- specification ---------------------------- *)

\* a step of one goroutine; after a panic the program runs no more
Next ==
    \/ StartupDial
    \/ \E f \in {"serverAddr", "serverConn"} : StartupStore(f)
    \/ StartupDialFailed
    \/ StartupStartGameFailed
    \/ StartupRelay
    \/ StartupSpawn
    \/ StartupAdd
    \/ \E p \in CloseUsers : CloseEnter(p)
    \/ \E p \in CloseUsers : CloseSkip(p)
    \/ \E p \in CloseUsers : CloseServer(p)
    \/ \E p \in CloseUsers : CloseRemove(p)
    \/ \E p \in Closers : CloserClose(p)
    \/ \E p \in Closers : CloserDisconnect(p)
    \/ \E t \in Transfers : TransferCAS(t)
    \/ \E t \in Transfers : TransferLock(t)
    \/ \E t \in Transfers : TransferLocked(t)
    \/ \E t \in Transfers : TransferDialFailed(t)
    \/ \E t \in Transfers : TransferDialed(t)
    \/ \E t \in Transfers : TransferCloseOld(t)
    \/ \E t \in Transfers : TransferPublishAddr(t)
    \/ \E t \in Transfers : TransferPublishConn(t)
    \/ \E t \in Transfers : TransferUnlock(t)
    \/ \E t \in Transfers : TransferReturn(t)
    \/ \E r \in Readers : ServerCall(r)
    \/ \E r \in Readers : ServerRLock(r)
    \/ \E r \in Readers : ServerRUnlock(r)

Spec == Init /\ [][Next]_vars

\* the steps goroutine p takes once it has made its call; the startup
\* goroutine runs from the start
Run(p) ==
    \/ p = Startup /\ (\/ StartupDial
                        \/ \E f \in {"serverAddr", "serverConn"} : StartupStore(f)
                        \/ StartupDialFailed
                        \/ StartupStartGameFailed
                        \/ StartupRelay
                        \/ StartupSpawn
                        \/ StartupAdd)
    \/ CloseEnter(p) \/ CloseSkip(p) \/ CloseServer(p) \/ CloseRemove(p)
    \/ p \in Transfers /\ (\/ TransferLock(p) \/ TransferLocked(p)
                            \/ TransferDialFailed(p) \/ TransferDialed(p)
                            \/ TransferCloseOld(p) \/ TransferPublishAddr(p)
                            \/ TransferPublishConn(p) \/ TransferUnlock(p)
                            \/ TransferReturn(p))
    \/ p \in Readers /\ (\/ ServerRLock(p) \/ ServerRUnlock(p))

\* the Go scheduler is fair: a goroutine that can take a step takes one.
\* Nothing obliges a caller to make its call; a dial returns, with a
\* connection or an error
FairSpec == Spec /\ \A p \in Procs : WF_vars(Run(p))

(* ------------------------------ properties ---------------------------- *)

Has(s, k) == \E i \in 1..Len(s) : s[i].ev = k
Count(s, k) == Cardinality({i \in 1..Len(s) : s[i].ev = k})
First(s, k) == CHOOSE i \in 1..Len(s) : s[i].ev = k /\ \A j \in 1..(i - 1) : s[j].ev # k

\* the statements of Transfer between the compare-and-swap and the deferred
\* Store(false)
HandshakePcs == {"lock", "lockWait", "dial", "closeOld", "publishAddr",
                 "publishConn", "unlock", "clearFlag"}
InHandshake(t) == pc[t] \in HandshakePcs
Rejected(t) == result[t] = "already transferring"

\* C1: at most one Transfer call is past the compare-and-swap at any time, the
\* flag is set while one is, and a call that arrives while the flag is set
\* does not get past it: it returns the "already transferring" error.
C1_OneTransferAtATime ==
    /\ [](/\ Cardinality({t \in Transfers : InHandshake(t)}) <= 1
          /\ (\E t \in Transfers : InHandshake(t)) => transferring)
    /\ [][\A t \in Transfers :
            (pc[t] = "idle" /\ transferring /\ Has(trace'[t], "Call"))
                => (pc'[t] = "done" /\ Rejected(t)')]_vars

\* C1's case: one call is inside the handshake and another has been rejected
C1_Witness ==
    \E t, u \in Transfers : t # u /\ InHandshake(t) /\ Rejected(u) /\ pc[u] = "done"

\* C2: the step that rejects a Transfer call changes nothing of the session:
\* not serverAddr, serverConn or the flag, not the lock, no connection is
\* closed or dialed, no packet is written; and the call returns in that very
\* step, whoever holds or awaits serverMu.
C2_RejectedTransferIsInert ==
    /\ [](\A t \in Transfers : Rejected(t) =>
            /\ pc[t] = "done"
            /\ conn[t] = Nil
            /\ Len(trace[t]) = 1 /\ trace[t][1].ev = "Call")
    /\ [][\A t \in Transfers :
            (pc[t] = "idle" /\ Rejected(t)') =>
                /\ pc'[t] = "done"
                /\ UNCHANGED <<serverAddr, serverConn, transferring, writer,
                               readers, once, clientClosed, connClosed,
                               registryVars, pending, conn, err, gameData,
                               lastOk>>
                /\ \A p \in Procs \ {t} : trace'[p] = trace[p]]_vars

\* C2's case: a call has been rejected while another call holds or awaits the
\* write lock
C2_Witness ==
    \E t, u \in Transfers :
        t # u /\ Rejected(t) /\ writer = u /\ pc[u] \in {"lockWait", "dial"}

\* the startup goroutine has made its two stores and no Transfer is in flight
Settled ==
    /\ pc[Startup] \notin {"dial", "store"}
    /\ \A t \in Transfers : ~InHandshake(t)

\* C3: once the startup stores are made and no Transfer is in flight,
\* serverAddr is the address of the most recent Transfer that returned nil, or
\* the address given to NewSession if none has.
C3_AddrIsLastSuccess ==
    Settled => serverAddr = (IF lastOk = NoAddr THEN InitAddr ELSE lastOk)

\* the goroutines whose call of Close has returned
CloseReturned(p) ==
    /\ pc[p] = "done"
    /\ result[p] \in {"Close", "Disconnect", "startup dial failed",
                      "start game failed"}
\* the goroutines that ran the body of Close
BodyRunners == {p \in CloseUsers : Has(trace[p], "ClientClose")}

\* C4: however many goroutines call Close, the body runs once: the client
\* connection is closed once, RemoveSession is called once, the body closes at
\* most one backend connection, namely the one it finds in serverConn (none
\* when it finds nil); and a call that finds the guard used changes nothing.
C4_CloseRunsOnce ==
    /\ [](/\ clientClosed <= 1 /\ removeCalls <= 1
          /\ Cardinality(BodyRunners) <= 1
          /\ \A p \in BodyRunners :
                /\ Count(trace[p], "ClientClose") = 1
                /\ Count(trace[p], "RemoveSession") <= 1
                /\ Cardinality({i \in 1..Len(trace[p]) :
                       trace[p][i].ev = "ServerClose" /\ trace[p][i].line = 201}) <= 1
          /\ (\E p \in CloseUsers : CloseReturned(p)) =>
                /\ once = "done" /\ clientClosed = 1 /\ removeCalls = 1
                /\ \E q \in BodyRunners : Count(trace[q], "RemoveSession") = 1)
    /\ [][\A p \in CloseUsers :
            /\ (pc[p] = "closeServer" /\ pc'[p] # pc[p]) =>
                  connClosed' = IF serverConn = Nil THEN connClosed
                                ELSE [connClosed EXCEPT ![serverConn] = @ + 1]
            /\ (pc[p] = "once" /\ once # "fresh" /\ pc'[p] # pc[p]) =>
                  /\ UNCHANGED <<serverAddr, serverConn, lockVars, once,
                                 clientClosed, connClosed, registryVars, trace>>
                  /\ pc'[p] = "done"]_vars

\* C4's case: two calls of Close have returned, and the body closed a backend
C4_Witness ==
    /\ \E p, q \in CloseUsers : p # q /\ CloseReturned(p) /\ CloseReturned(q)
    /\ \E p \in BodyRunners : Has(trace[p], "ServerClose")

\* C5: a Transfer call whose dial fails makes no step, from its first to its
\* return, that changes serverAddr or serverConn or closes a connection, and
\* what it has done when it returns is the two metadata packets: no tracker
\* clear, no animation hook, no close.
C5_FailedDialChangesNothing ==
    /\ [](\A t \in Transfers : result[t] = "dial failed" =>
            /\ conn[t] = Nil
            /\ \A i \in 1..Len(trace[t]) : trace[t][i].ev \in {"Call", "SetActorData"})
    /\ [][\A t \in Transfers :
            (/\ pc'[t] # pc[t]
             /\ \/ pc[t] \in {"lock", "lockWait"}
                \/ pc[t] = "dial" /\ err'[t]
                \/ pc[t] \in {"unlock", "clearFlag"} /\ err[t])
            => UNCHANGED <<serverAddr, serverConn, connClosed, clientClosed,
                           registryVars>>]_vars

\* C5's case: a Transfer on a session that has a backend has returned the
\* dial's error
C5_Witness ==
    \E t \in Transfers :
        /\ result[t] = "dial failed" /\ pc[t] = "done"
        /\ serverConn = Startup /\ connClosed[Startup] = 0

ClearOps == {"clearEffects", "clearEntities", "clearBossBars", "clearPlayers",
             "clearScoreboards"}

\* C6: a Transfer that returned nil has invoked each of the five tracker
\* clears once, animation Play once and before animation Clear, and has closed
\* the previous connection (not the new one; connection A when the session was
\* idle on A) after the new backend's game data was obtained and before the
\* first deferred packet of the new backend was written.
C6_SuccessfulTransferOrder ==
    \A t \in Transfers : result[t] = "ok" =>
        LET s == trace[t] IN
        /\ \A k \in ClearOps : Count(s, k) = 1
        /\ Count(s, "Play") = 1 /\ Count(s, "Clear") = 1
        /\ First(s, "Play") < First(s, "Clear")
        /\ Count(s, "GameData") = 1 /\ Count(s, "ServerClose") = 1
        /\ First(s, "GameData") < First(s, "ServerClose")
        /\ Has(s, "Deferred") /\ First(s, "ServerClose") < First(s, "Deferred")
        /\ \A i \in 1..Len(s) : s[i].ev = "Deferred" => s[i].conn = t
        /\ s[First(s, "ServerClose")].conn # t
        /\ (s[1].idle /\ \A u \in Transfers \ {t} : ~Has(trace[u], "Publish"))
              => s[First(s, "ServerClose")].conn = Startup

\* C6's case: a session idle on A has been transferred to B
C6_Witness ==
    \E t \in Transfers :
        /\ result[t] = "ok" /\ trace[t][1].idle
        /\ connClosed[Startup] = 1 /\ serverConn = t

\* the Transfer calls made so far
TransferCalls == {t \in Transfers : Has(trace[t], "Call")}
\* the backend connections dialed so far
Dialed == {c \in ConnIds : conn[c] = c}
\* every Transfer call so far was made on the idle session and has returned,
\* and no Close has begun
AfterIdleTransfers ==
    /\ Idle /\ ~crashed
    /\ \A t \in TransferCalls : pc[t] = "done" /\ trace[t][1].idle

\* C7, as first stated: of two Transfer calls on the idle session of which one
\* was rejected by the other, exactly one returns nil
C7_ExactlyOneSucceeds ==
    \A t, u \in Transfers :
        (t # u /\ AfterIdleTransfers /\ Rejected(u) /\ ~Rejected(t)
         /\ TransferCalls = {t, u})
        => result[t] = "ok"

\* C7, amended: Transfer calls on the idle session never overlap inside the
\* handshake; a call is rejected only when another call got past the flag; a
\* call that got past it returns nil exactly when its dial succeeded; and
\* when they have returned, serverAddr and serverConn are those of one and
\* the same call (the most recent that returned nil, or the startup's), and
\* that connection is the only one open, every other having been closed once.
C7_TransfersDoNotMix ==
    /\ Cardinality({t \in Transfers : InHandshake(t)}) <= 1
    /\ \A t \in Transfers :
          Rejected(t) => \E u \in TransferCalls \ {t} : ~Rejected(u)
    /\ AfterIdleTransfers =>
          /\ serverConn # Nil
          /\ serverAddr = ConnAddr(serverConn)
          /\ serverAddr = (IF lastOk = NoAddr THEN InitAddr ELSE lastOk)
          /\ \A t \in TransferCalls \ {u \in Transfers : Rejected(u)} :
                /\ result[t] \in {"ok", "dial failed"}
                /\ result[t] = "ok" <=> conn[t] = t
          /\ {c \in Dialed : connClosed[c] = 0} = {serverConn}
          /\ \A c \in Dialed \ {serverConn} : connClosed[c] = 1

\* C7's case: of two calls on the idle session one was rejected, the other
\* returned nil
C7_Witness ==
    \E t, u \in Transfers :
        /\ t # u /\ AfterIdleTransfers
        /\ Rejected(u) /\ result[t] = "ok" /\ serverConn = t

CloseEvents == {"ClientClose", "ServerClose", "RemoveSession"}

\* C8: when the startup dial has failed, AddSession is never called and the
\* registry holds no entry, the pumps and the latency sampler are not started,
\* the startup goroutine writes nothing to the client, and when it ends the
\* session has been closed.
C8_FailedStartupDial ==
    err[Startup] =>
        /\ addCalls = 0 /\ ~registered /\ ~pumpsStarted
        /\ \A i \in 1..Len(trace[Startup]) : trace[Startup][i].ev \in CloseEvents
        /\ pc[Startup] = "done" => (once = "done" /\ clientClosed = 1)

\* C8's case: the startup goroutine has ended after a failed dial
C8_Witness == err[Startup] /\ pc[Startup] = "done"

\* what the startup goroutine does to the client before it registers
StartupPackets ==
    <<[ev |-> "StartGame", conn |-> Startup], sendMetadata(TRUE)>>
    \o ReadDeferred(Startup)

\* C9: AddSession is called only when the startup goroutine has forwarded the
\* start-game data, sent the metadata packet and flushed the deferred packets
\* in order, and has started the pumps; when the dial or StartGame has failed
\* it is never called, and the goroutine ends with the session closed.
C9_RegisteredAfterStartGame ==
    /\ addCalls > 0 =>
          /\ pumpsStarted
          /\ Len(trace[Startup]) >= Len(StartupPackets)
          /\ SubSeq(trace[Startup], 1, Len(StartupPackets)) = StartupPackets
    /\ result[Startup] \in {"startup dial failed", "start game failed"} =>
          /\ addCalls = 0 /\ ~registered
          /\ pc[Startup] = "done" => once = "done"

\* C9's case: the session has been registered; and a start that failed at
\* StartGame has ended
C9_Witness ==
    \/ addCalls = 1 /\ registered
    \/ result[Startup] = "start game failed" /\ pc[Startup] = "done"

\* C10: once Close has completed, the registry holds no entry for the session.
C10_ClosedIsNotRegistered ==
    once = "done" => ~registered

\* a Transfer holds the write lock: it is between Lock's return and Unlock
WriteLocked ==
    \E t \in Transfers :
        writer = t /\ pc[t] \in {"dial", "closeOld", "publishAddr", "publishConn",
                                  "unlock"}
\* connection c has been made the session's backend
Published(c) == c = Startup \/ (c \in Transfers /\ Has(trace[c], "Publish"))
\* connection c has been closed by a Transfer, as its previous connection
ClosedByTransfer(c) ==
    \E t \in Transfers : \E i \in 1..Len(trace[t]) :
        /\ trace[t][i].ev = "ServerClose"
        /\ trace[t][i].line = 159 /\ trace[t][i].conn = c

\* C11: no Server call has read the field, or returns, while a Transfer holds
\* the write lock; and the connection a Server call returns is, when it
\* returns, the one in serverConn: a connection that has been published and
\* that no Transfer has closed.
C11_ReadersSeePublishedBackend ==
    /\ [](WriteLocked => (readers = {} /\ \A r \in Readers : pc[r] # "runlock"))
    /\ [][\A r \in Readers :
            (pc[r] = "runlock" /\ pc'[r] = "done") =>
                /\ ~WriteLocked
                /\ conn[r] # Nil =>
                      /\ conn[r] = serverConn
                      /\ Published(conn[r])
                      /\ ~ClosedByTransfer(conn[r])]_vars

\* C11's case: a Server call made after a Transfer from A has returned the
\* connection that Transfer published
C11_Witness ==
    \E r \in Readers, t \in Transfers :
        /\ result[r] = "returned" /\ conn[r] = t
        /\ result[t] = "ok" /\ ClosedByTransfer(Startup)

\* the goroutines that have called Disconnect
Disconnecters == {p \in Closers : result[p] = "Disconnect"}

\* C12, as first stated: every disconnect notice is written while the client
\* connection has not been closed, whoever closes it
C12_NoticeBeforeClientClose ==
    \A p \in Closers : \A i \in 1..Len(trace[p]) :
        trace[p][i].ev = "Disconnect" => trace[p][i].clientClosed = 0

\* C12, amended: a Disconnect call writes one notice, and writes it before it
\* calls Close: the write precedes the close of the client connection that
\* the call itself makes; a notice written to a client connection already
\* closed finds it closed by the Close of another goroutine.
C12_NoticeBeforeOwnClose ==
    \A p \in Disconnecters :
        /\ Len(trace[p]) >= 1 /\ trace[p][1].ev = "Disconnect"
        /\ Count(trace[p], "Disconnect") = 1
        /\ Has(trace[p], "ClientClose") => trace[p][1].clientClosed = 0
        /\ trace[p][1].clientClosed > 0 =>
              \E q \in BodyRunners : q # p /\ trace[p][1].clientClosed = 1

\* C12's case: a Disconnect call has written its notice, closed the client
\* connection itself and returned
C12_Witness ==
    \E p \in Disconnecters :
        /\ pc[p] = "done" /\ Has(trace[p], "ClientClose")
        /\ trace[p][1].clientClosed = 0 /\ clientClosed = 1

\* the Transfer calls that got past the compare-and-swap and have ended
PassedAndEnded(t) == pc[t] = "done" /\ result[t] \in {"ok", "dial failed", "panic"}

\* C13: a Transfer call that got past the flag holds the write lock only
\* between Lock and the deferred Unlock and the flag only until the deferred
\* Store(false), whether its dial failed or succeeded: when it has ended it
\* does not hold the lock, and when no call is in flight the lock is free and
\* the flag is false, so that the next Transfer call gets past the flag and a
\* Server call gets the read lock.
C13_LockAndFlagReleased ==
    /\ [](/\ \A t \in Transfers : PassedAndEnded(t) => writer # t
          /\ (\A t \in Transfers : ~InHandshake(t)) =>
                (writer = Nil /\ ~transferring)
          /\ writer # Nil => (writer \in Transfers /\ InHandshake(writer)))
    /\ [][\A t \in Transfers :
            (/\ pc[t] = "idle" /\ Has(trace'[t], "Call")
             /\ \A u \in Transfers \ {t} : ~InHandshake(u))
            => (pc'[t] = "lock" /\ ~Rejected(t)')]_vars
    /\ [][\A r \in Readers :
            (pc[r] = "rlock" /\ \A u \in Transfers : ~InHandshake(u))
            => ENABLED ServerRLock(r)]_vars

\* C13's case: after a Transfer whose dial failed has returned, another
\* Transfer call has got past the flag and has returned nil
C13_Witness ==
    \E t, u \in Transfers :
        /\ t # u /\ result[t] = "dial failed" /\ pc[t] = "done"
        /\ result[u] = "ok" /\ pc[u] = "done"

\* C14: a Transfer call whose dial failed has written to the client the
\* AI-suppressing metadata packet and then the restoring one (NoAI not set),
\* nothing before, between or after them, and both before it returns.
C14_FailedDialPackets ==
    \A t \in Transfers :
        /\ (pc[t] \in {"unlock", "clearFlag", "done"} /\ err[t]) =>
              trace[t] = <<[ev |-> "Call", addr |-> AddrOf(t), idle |-> trace[t][1].idle],
                           [ev |-> "SetActorData", NoAI |-> TRUE,
                            Breathing |-> TRUE, HasGravity |-> TRUE],
                           [ev |-> "SetActorData", NoAI |-> FALSE,
                            Breathing |-> TRUE, HasGravity |-> TRUE]>>
        /\ result[t] = "dial failed" => (pc[t] = "done" /\ err[t])

\* C14's case: a Transfer call has returned the dial's error, its two packets
\* written
C14_Witness ==
    \E t \in Transfers :
        result[t] = "dial failed" /\ Len(trace[t]) = 3 /\ ~trace[t][3].NoAI

\* the steps of a successful Transfer, by name, in the order of spec 4.2
TransferOrder ==
    <<"Call", "SetActorData", "GameData", "Play", "ChunkFlood",
      "clearEffects", "clearEntities", "clearBossBars", "clearPlayers",
      "clearScoreboards", "MovePlayer", "LevelEvent", "LevelEvent",
      "SetDifficulty", "SetPlayerGameType", "GameRulesChanged", "Clear",
      "ServerClose", "Publish">>

\* C15: what a Transfer that returned nil did is, in this order and with
\* nothing else between: the AI-suppressing metadata, animation Play, the chunk
\* flood, the five tracker clears, the MovePlayer reset, stop-rain then
\* stop-thunder, difficulty, game mode, game rules, animation Clear, the close
\* of the previous connection, the publication of the new address and
\* connection, then the new backend's deferred packets in arrival order; and
\* no other Transfer call takes a step of its handshake meanwhile.
C15_TransferStepsInOrder ==
    /\ [](\A t \in Transfers : result[t] = "ok" =>
            LET s == trace[t]
                n == Len(TransferOrder)
            IN  /\ Len(s) = n + MaxDeferred
                /\ \A i \in 1..n : s[i].ev = TransferOrder[i]
                /\ s[2].NoAI
                /\ s[11].Mode = "Reset" /\ s[11].Position = gameData[t].PlayerPosition
                /\ s[12].EventType = "StopRaining"
                /\ s[13].EventType = "StopThunderstorm"
                /\ s[18].conn # t /\ s[18].line = 159
                /\ s[19].conn = t /\ s[19].addr = AddrOf(t)
                /\ \A i \in 1..MaxDeferred :
                      s[n + i] = [ev |-> "Deferred", conn |-> t, seq |-> i])
    /\ [][\A t, u \in Transfers :
            (/\ t # u /\ InHandshake(t)
             /\ trace'[u] # trace[u] /\ trace'[u][1].ev = "Call")
            => Rejected(u)']_vars

\* C15's case: a Transfer to a backend in the End has returned nil while the
\* other caller's Transfer was rejected
C15_Witness ==
    \E t, u \in Transfers :
        /\ result[t] = "ok" /\ gameData[t].Dimension = 2
        /\ Rejected(u) /\ Len(trace[t]) = Len(TransferOrder) + MaxDeferred

\* the chunk packets Transfer call t has written
ChunksOf(t) ==
    IF Has(trace[t], "ChunkFlood")
    THEN ChunkFlood(trace[t][First(trace[t], "ChunkFlood")].gameData)
    ELSE <<>>

\* C16: whatever dimension the new backend reports, every synthetic chunk a
\* Transfer writes is tagged with a dimension other than that one.
C16_ChunksTaggedOffTarget ==
    \A t \in Transfers : \A i \in 1..Len(ChunksOf(t)) :
        ChunksOf(t)[i].Dimension # gameData[t].Dimension

\* C17: while a Transfer holds the write lock no other activity reads or
\* writes serverAddr or serverConn: the startup goroutine makes neither of its
\* stores, and Close does not read serverConn.
C17_BackendFieldsUnderLock ==
    [][WriteLocked =>
          /\ ~(pc[Startup] = "store" /\ pending' # pending)
          /\ \A p \in CloseUsers :
                ~(pc[p] = "closeServer" /\ pc'[p] = "remove")]_vars

\* C18: a backend connection is closed at most once, by Close or by Transfer.
C18_ConnClosedAtMostOnce ==
    \A c \in ConnIds : connClosed[c] <= 1

\* C19: when Close has completed and neither the startup goroutine nor a
\* Transfer is in flight, every backend connection that was dialed has been
\* closed.
C19_NoConnLeak ==
    (/\ once = "done" /\ ~crashed
     /\ pc[Startup] = "done"
     /\ \A t \in Transfers : ~InHandshake(t))
    => \A c \in Dialed : connClosed[c] >= 1

\* C20: under fair scheduling every Transfer call that got past the flag
\* returns, with nil or with the dial's error, and every Server call returns.
C20_TransferAndServerReturn ==
    /\ \A t \in Transfers :
          InHandshake(t) ~> (pc[t] = "done" /\ result[t] \in {"ok", "dial failed"})
    /\ \A r \in Readers :
          (pc[r] = "rlock") ~> (pc[r] = "done" /\ result[r] = "returned")

====
